---- MODULE Spec2Model ----
(***************************************************************************)
(* Model of ai_seo_auditor.py: the upload validation, the per-article loop *)
(* (base-URL discovery, parse_html with its image and link loops, report   *)
(* aggregation, enrichment call, download artifact).                       *)
(*                                                                         *)
(* Representation.  A URL string is held in parsed form, a record          *)
(* [scheme, netloc, path, frag, bad]; bad marks a string urlsplit rejects  *)
(* with ValueError (e.g. "http://[bad").  The empty string is EmptyUrl.    *)
(* A text is a sequence of tokens, the token " " being whitespace.         *)
(* A page_html value is held as the elements BeautifulSoup finds in it:    *)
(* the first <base> tag, the <a> elements and the <img> elements, in       *)
(* document order.  Title, description, headings and main text are not     *)
(* modelled.                                                               *)
(***************************************************************************)
EXTENDS Integers, Sequences, FiniteSets, TLC

\* ---------------------------------------------------------------- bounds
MaxDocs == 3
MaxLinks == 2
MaxImgs == 1

\* the link loop issues one blocking request at a time
MaxInFlight == 1

\* ---------------------------------------------------------------- URLs
Url(s, n, p, f, b) == [scheme |-> s, netloc |-> n, path |-> p, frag |-> f, bad |-> b]

EmptyUrl == Url("", "", "", "", FALSE)
RootRef == Url("", "", "/", "", FALSE)
RelAbout == Url("", "", "/about", "", FALSE)
FragTop == Url("", "", "", "top", FALSE)
AbsSite == Url("http", "site.com", "/a", "", FALSE)
AbsSiteUpper == Url("http", "SITE.com", "/a", "", FALSE)
AbsExt == Url("http", "ext.com", "/b", "", FALSE)
JsVoid == Url("javascript", "", "void(0)", "", FALSE)
AppLink == Url("app", "host", "/x", "", FALSE)
Malformed == Url("http", "[bad", "", "", TRUE)
SiteRoot == Url("http", "site.com", "/", "", FALSE)

\* urllib.parse.uses_relative / uses_netloc, restricted to the schemes in use
uses_relative == {"", "http", "https", "ftp"}
uses_netloc == {"", "http", "https", "ftp"}

Ok(v) == [exc |-> "", val |-> v]
Raise(e) == [exc |-> e, val |-> EmptyUrl]

\* urllib.parse.urlparse: ValueError on a malformed string, else the parts
urlparse(u) == IF u.bad THEN Raise("ValueError") ELSE Ok(u)

\* urllib.parse.urljoin(base, url) for references whose path is empty or
\* starts with "/" (the only ones in HrefSet)
urljoin(base, url) ==
  IF base = EmptyUrl THEN Ok(url)
  ELSE IF url = EmptyUrl THEN Ok(base)
  ELSE IF base.bad \/ url.bad THEN Raise("ValueError")
  ELSE LET scheme == IF url.scheme = "" THEN base.scheme ELSE url.scheme IN
       IF scheme # base.scheme \/ scheme \notin uses_relative THEN Ok(url)
       ELSE IF scheme \in uses_netloc /\ url.netloc # ""
            THEN Ok(Url(scheme, url.netloc, url.path, url.frag, FALSE))
       ELSE LET netloc == IF scheme \in uses_netloc THEN base.netloc ELSE url.netloc IN
            IF url.path = ""
            THEN Ok(Url(scheme, netloc, base.path, url.frag, FALSE))
            ELSE Ok(Url(scheme, netloc, url.path, url.frag, FALSE))

\* ---------------------------------------------------------------- texts
WS == " "
NoAltText == <<"No alt text provided">>
FailedParseMsg == <<"Failed to parse Mistral response.">>
ErrorConnectMsg == <<"Error connecting to Mistral.">>

RECURSIVE LStrip(_)
LStrip(t) == IF t # <<>> /\ Head(t) = WS THEN LStrip(Tail(t)) ELSE t

RECURSIVE RStrip(_)
RStrip(t) == IF t # <<>> /\ t[Len(t)] = WS THEN RStrip(SubSeq(t, 1, Len(t) - 1)) ELSE t

\* str.strip()
Strip(t) == RStrip(LStrip(t))

\* ---------------------------------------------------------------- markup
Anchor(h) == [has_href |-> TRUE, href |-> h]
BareAnchor == [has_href |-> FALSE, href |-> EmptyUrl]
Img(t) == [has_alt |-> TRUE, alt |-> t]
BareImg == [has_alt |-> FALSE, alt |-> <<>>]
NoBaseTag == [present |-> FALSE, href |-> EmptyUrl]
BaseTag(h) == [present |-> TRUE, href |-> h]
Html(b, as, is) == [base |-> b, anchors |-> as, imgs |-> is]

\* soup.find_all("a", href=True): the href-bearing anchors, in document order
find_all_a_href(html) == SelectSeq(html.anchors, LAMBDA a : a.has_href)

\* ---------------------------------------------------------------- get_base_url_from_html
get_base_url_from_html_scan(html) ==
  IF html.base.present /\ html.base.href # EmptyUrl
  THEN Ok(html.base.href)
  ELSE LET as == find_all_a_href(html)
           abs == SelectSeq(as, LAMBDA a : ~a.href.bad /\ a.href.netloc # "")
       IN IF abs = <<>> THEN Ok(EmptyUrl) ELSE urljoin(abs[1].href, RootRef)

get_base_url_from_html(html) ==
  IF html.base.present /\ html.base.href # EmptyUrl
  THEN Ok(html.base.href)
  ELSE LET as == find_all_a_href(html) IN
       IF as = <<>> THEN Ok(EmptyUrl)
       ELSE LET first == urlparse(as[1].href) IN
            IF first.exc # "" THEN Raise(first.exc)
            ELSE IF first.val.netloc # "" THEN urljoin(as[1].href, RootRef)
            ELSE Ok(EmptyUrl)

\* ---------------------------------------------------------------- parse_html: images
img_alt_empty_default(img) == Strip(IF img.has_alt THEN img.alt ELSE <<>>)

\* img.get("alt", "No alt text provided").strip()
img_alt(img) == Strip(IF img.has_alt THEN img.alt ELSE NoAltText)

parse_images(html) == [n \in 1..Len(html.imgs) |-> [alt |-> img_alt(html.imgs[n])]]

\* ---------------------------------------------------------------- parse_html: links
ErrorStatus == -1
Statuses == {200, 204, 301, 404, 405, 500}

\* requests raises MissingSchema / InvalidSchema / InvalidURL (all
\* RequestException) before anything is sent unless the URL is http(s) with a host
Sendable(u) == ~u.bad /\ u.scheme \in {"http", "https"} /\ u.netloc # ""

retry_with_get_always(status) == TRUE

\* if response.status_code >= 400: response = requests.get(...)
retry_with_get(status) == status >= 400

\* "internal" if urlparse(full_href).netloc == urlparse(base_url).netloc else "external"
link_type(full, base) == IF full.netloc = base.netloc THEN "internal" ELSE "external"

\* ---------------------------------------------------------------- generate_audit_report
broken_link_count_not200(links) == Len(SelectSeq(links, LAMBDA l : l.status # 200))

broken_link_count(links) ==
  Len(SelectSeq(links, LAMBDA l : l.status # 200 /\ l.status # ErrorStatus))

error_link_count(links) == Len(SelectSeq(links, LAMBDA l : l.status = ErrorStatus))

generate_audit_report(url, parsed_data) ==
  [url |-> url,
   image_count |-> Len(parsed_data.images),
   link_count |-> Len(parsed_data.links),
   internal_link_count |-> Len(SelectSeq(parsed_data.links, LAMBDA l : l.type = "internal")),
   external_link_count |-> Len(SelectSeq(parsed_data.links, LAMBDA l : l.type = "external")),
   broken_link_count |-> broken_link_count(parsed_data.links),
   error_link_count |-> error_link_count(parsed_data.links)]

\* ---------------------------------------------------------------- send_to_mistral
\* what client.text_generation hands back: a str, a list whose first item
\* has generated_text, any other shape, or an exception
ApiTexts == {<<"advice">>, <<WS, "advice", WS>>, <<WS>>, <<>>}
ApiResponses ==
  [kind : {"str", "list"}, text : ApiTexts] \cup
  {[kind |-> "other", text |-> <<>>], [kind |-> "raise", text |-> <<>>]}

send_to_mistral(response) ==
  CASE response.kind = "str" -> Strip(response.text)
    [] response.kind = "list" -> Strip(response.text)
    [] response.kind = "other" -> FailedParseMsg
    [] OTHER -> ErrorConnectMsg

\* create_download_link(report_text, f"audit_report_{i+1}.txt"); analysis is
\* <<>> in the artifact that carries the report alone
create_download_link(n, rep, analysis) ==
  [filename |-> n, report |-> rep, analysis |-> analysis]

\* ---------------------------------------------------------------- inputs
RECURSIVE SeqsUpTo(_, _)
SeqsUpTo(S, n) ==
  IF n = 0 THEN {<<>>}
  ELSE LET shorter == SeqsUpTo(S, n - 1) IN
       shorter \cup {Append(q, x) : q \in {t \in shorter : Len(t) = n - 1}, x \in S}

HrefSet == {RelAbout, FragTop, AbsSite, AbsSiteUpper, AbsExt, JsVoid, AppLink, Malformed}
AnchorSet == {Anchor(h) : h \in HrefSet} \cup {BareAnchor}
BaseTagSet == {NoBaseTag, BaseTag(EmptyUrl), BaseTag(SiteRoot)}
ImgSet == {BareImg, Img(<<>>), Img(<<WS>>), Img(<<"logo">>), Img(<<WS, "logo", WS>>)}

\* documents explored one at a time: every anchor list, or every image list
LinkDocs == {Html(b, as, <<>>) : b \in BaseTagSet, as \in SeqsUpTo(AnchorSet, MaxLinks)}
ImgDocs == {Html(NoBaseTag, <<>>, is) : is \in SeqsUpTo(ImgSet, MaxImgs)}

Entry(html) == [is_dict |-> TRUE, has_page_html |-> TRUE, page_html |-> html]
NoHtmlEntry == [is_dict |-> TRUE, has_page_html |-> FALSE, page_html |-> Html(NoBaseTag, <<>>, <<>>)]
NotADict == [is_dict |-> FALSE, has_page_html |-> FALSE, page_html |-> Html(NoBaseTag, <<>>, <<>>)]

\* entries of the batches explored: two invalid shapes, a document with no
\* links, one with a base tag and a script link, one whose first link is malformed
DocPlain == Html(NoBaseTag, <<>>, <<>>)
DocScript == Html(BaseTag(SiteRoot), <<Anchor(JsVoid)>>, <<>>)
DocBadFirst == Html(NoBaseTag, <<Anchor(Malformed)>>, <<>>)
BatchEntrySet == {NoHtmlEntry, NotADict, Entry(DocPlain), Entry(DocScript), Entry(DocBadFirst)}

Upload(kind, items) == [kind |-> kind, items |-> items]
Uploads ==
  {Upload("none", <<>>), Upload("badjson", <<>>), Upload("scalar", <<>>)} \cup
  {Upload("dict", <<e>>) : e \in {NoHtmlEntry} \cup {Entry(d) : d \in LinkDocs \cup ImgDocs}} \cup
  {Upload("list", es) : es \in SeqsUpTo(BatchEntrySet, MaxDocs)}

\* ---------------------------------------------------------------- state
VARIABLES
  uploaded_file,    \* the upload: kind and entries
  pc,               \* position of the script
  valid_articles,   \* line 129 / 137
  i,                \* enumerate index of the per-article loop (0-based)
  base_url,         \* line 144
  images,           \* parse_html local
  links,            \* parse_html local
  k,                \* position of the link loop in find_all_a_href (1-based)
  full_href,        \* parse_html local
  status_code,      \* parse_html local
  nhead, nget,      \* requests.head / requests.get calls made for the current anchor
  head_resp,        \* outcome of the HEAD call for the current anchor, <<>> before it
  get_resp,         \* outcome of the GET call for the current anchor, <<>> before it
  inflight,         \* requests sent and not yet answered
  report,           \* line 146
  enhanced_report,  \* line 148
  download_link,    \* module-level name of line 153: <<>> while unbound
  emitted,          \* artifacts passed to st.markdown, in order
  shown,            \* reports passed to st.json, in order
  fault             \* uncaught exception that ended the script and the function
                    \* it escaped from, "" if none

vars == <<uploaded_file, pc, valid_articles, i, base_url, images, links, k, full_href,
          status_code, nhead, nget, head_resp, get_resp, inflight, report,
          enhanced_report, download_link, emitted, shown, fault>>

NoReport == generate_audit_report(EmptyUrl, [images |-> <<>>, links |-> <<>>])

Init ==
  /\ uploaded_file \in Uploads
  /\ pc = "upload"
  /\ valid_articles = <<>>
  /\ i = 0
  /\ base_url = EmptyUrl
  /\ images = <<>>
  /\ links = <<>>
  /\ k = 1
  /\ full_href = EmptyUrl
  /\ status_code = ErrorStatus
  /\ nhead = 0
  /\ nget = 0
  /\ head_resp = <<>>
  /\ get_resp = <<>>
  /\ inflight = 0
  /\ report = NoReport
  /\ enhanced_report = <<>>
  /\ download_link = <<>>
  /\ emitted = <<>>
  /\ shown = <<>>
  /\ fault = ""

probe_vars == <<full_href, status_code, nhead, nget, head_resp, get_resp, inflight>>
article_vars == <<base_url, images, links, k, report, enhanced_report>>
output_vars == <<download_link, emitted, shown>>

html == valid_articles[i + 1].page_html

\* lines 117-137: read the upload, keep the entries that have page_html
is_valid_article(article) == article.is_dict /\ article.has_page_html

Validate ==
  /\ pc = "upload"
  /\ LET valid == SelectSeq(uploaded_file.items, is_valid_article)
         stop == \/ uploaded_file.kind \in {"none", "badjson", "scalar"}
                 \/ valid = <<>>
     IN /\ valid_articles' = IF stop THEN <<>> ELSE valid
        /\ pc' = IF stop THEN "stopped" ELSE "article"
  /\ UNCHANGED <<uploaded_file, i, fault>>
  /\ UNCHANGED <<article_vars, probe_vars, output_vars>>

\* line 141: the loop is over
Finish ==
  /\ pc = "article"
  /\ i >= Len(valid_articles)
  /\ pc' = "done"
  /\ UNCHANGED <<uploaded_file, valid_articles, i, fault>>
  /\ UNCHANGED <<article_vars, probe_vars, output_vars>>

\* lines 141-144: next article, base_url = get_base_url_from_html(html)
GetBaseUrl ==
  /\ pc = "article"
  /\ i < Len(valid_articles)
  /\ LET r == get_base_url_from_html(html) IN
       IF r.exc # ""
       THEN /\ pc' = "fault"
            /\ fault' = "get_base_url_from_html: ValueError"
            /\ UNCHANGED base_url
       ELSE /\ pc' = "images"
            /\ base_url' = r.val
            /\ UNCHANGED fault
  /\ UNCHANGED <<uploaded_file, valid_articles, i, images, links, k, report, enhanced_report>>
  /\ UNCHANGED <<probe_vars, output_vars>>

\* lines 54-67: parse_html up to the link loop
ParseImages ==
  /\ pc = "images"
  /\ images' = parse_images(html)
  /\ links' = <<>>
  /\ k' = 1
  /\ pc' = "links"
  /\ UNCHANGED <<uploaded_file, valid_articles, i, base_url, report, enhanced_report, fault>>
  /\ UNCHANGED <<probe_vars, output_vars>>

anchors == find_all_a_href(html)

\* lines 68-70: next anchor, full_href = urljoin(base_url, href)
ResolveLink ==
  /\ pc = "links"
  /\ k <= Len(anchors)
  /\ LET r == urljoin(base_url, anchors[k].href) IN
       IF r.exc # ""
       THEN /\ pc' = "fault"
            /\ fault' = "parse_html: ValueError"
            /\ UNCHANGED full_href
       ELSE /\ pc' = "head"
            /\ full_href' = r.val
            /\ UNCHANGED fault
  /\ UNCHANGED <<uploaded_file, valid_articles, i, status_code, nhead, nget, head_resp,
                 get_resp, inflight>>
  /\ UNCHANGED <<article_vars, output_vars>>

after_head_sent_no_wait == "classify"

\* requests.head blocks until the response or the exception
after_head_sent == "head_wait"

\* line 72: requests.head(full_href, ...) is called
SendHead ==
  /\ pc = "head"
  /\ nhead' = nhead + 1
  /\ IF Sendable(full_href)
     THEN /\ inflight' = inflight + 1
          /\ pc' = after_head_sent
          /\ UNCHANGED <<status_code, head_resp>>
     ELSE /\ head_resp' = <<ErrorStatus>>
          /\ status_code' = ErrorStatus
          /\ pc' = "classify"
          /\ UNCHANGED inflight
  /\ UNCHANGED <<uploaded_file, valid_articles, i, full_href, nget, get_resp, fault>>
  /\ UNCHANGED <<article_vars, output_vars>>

\* lines 72-77: the HEAD call returns a status or raises a RequestException
HeadResponse ==
  /\ pc = "head_wait"
  /\ \E r \in Statuses \cup {ErrorStatus} :
       /\ head_resp' = <<r>>
       /\ IF r = ErrorStatus
          THEN status_code' = ErrorStatus /\ pc' = "classify"
          ELSE IF retry_with_get(r)
          THEN UNCHANGED status_code /\ pc' = "get"
          ELSE status_code' = r /\ pc' = "classify"
  /\ inflight' = inflight - 1
  /\ UNCHANGED <<uploaded_file, valid_articles, i, full_href, nhead, nget, get_resp, fault>>
  /\ UNCHANGED <<article_vars, output_vars>>

\* line 74: requests.get(full_href, ...) is called
SendGet ==
  /\ pc = "get"
  /\ nget' = nget + 1
  /\ inflight' = inflight + 1
  /\ pc' = "get_wait"
  /\ UNCHANGED <<uploaded_file, valid_articles, i, full_href, status_code, nhead, head_resp,
                 get_resp, fault>>
  /\ UNCHANGED <<article_vars, output_vars>>

\* lines 74-77: the GET call returns a status or raises a RequestException
GetResponse ==
  /\ pc = "get_wait"
  /\ \E r \in Statuses \cup {ErrorStatus} :
       /\ get_resp' = <<r>>
       /\ status_code' = r
  /\ inflight' = inflight - 1
  /\ pc' = "classify"
  /\ UNCHANGED <<uploaded_file, valid_articles, i, full_href, nhead, nget, head_resp, fault>>
  /\ UNCHANGED <<article_vars, output_vars>>

\* lines 78-79: classify and append; the per-anchor locals are dead afterwards
ClassifyAppend ==
  /\ pc = "classify"
  /\ LET f == urlparse(full_href)
         b == urlparse(base_url)
     IN IF f.exc # "" \/ b.exc # ""
        THEN /\ pc' = "fault"
             /\ fault' = "parse_html: ValueError"
             /\ UNCHANGED <<links, k, full_href, status_code, nhead, nget, head_resp, get_resp>>
        ELSE /\ links' = Append(links, [url |-> full_href, status |-> status_code,
                                        type |-> link_type(f.val, b.val)])
             /\ k' = k + 1
             /\ full_href' = EmptyUrl
             /\ status_code' = ErrorStatus
             /\ nhead' = 0
             /\ nget' = 0
             /\ head_resp' = <<>>
             /\ get_resp' = <<>>
             /\ pc' = "links"
             /\ UNCHANGED fault
  /\ UNCHANGED <<uploaded_file, valid_articles, i, base_url, images, report, enhanced_report,
                 inflight>>
  /\ UNCHANGED output_vars

\* lines 80-88, 146-147: parse_html returns, the report is built and shown
GenerateReport ==
  /\ pc = "links"
  /\ k > Len(anchors)
  /\ report' = generate_audit_report(base_url, [images |-> images, links |-> links])
  /\ shown' = Append(shown, report')
  /\ pc' = "enrich"
  /\ UNCHANGED <<uploaded_file, valid_articles, i, base_url, images, links, k,
                 enhanced_report, download_link, emitted, fault>>
  /\ UNCHANGED probe_vars

\* line 148: enhanced_report = send_to_mistral(report, ...)
SendToMistral ==
  /\ pc = "enrich"
  /\ \E response \in ApiResponses : enhanced_report' = send_to_mistral(response)
  /\ pc' = "emit"
  /\ UNCHANGED <<uploaded_file, valid_articles, i, base_url, images, links, k, report, fault>>
  /\ UNCHANGED <<probe_vars, output_vars>>

\* lines 149-154: the artifact with the analysis
EmitEnhanced ==
  /\ pc = "emit"
  /\ enhanced_report # <<>>
  /\ download_link' = <<create_download_link(i + 1, report, enhanced_report)>>
  /\ emitted' = Append(emitted, download_link'[1])
  /\ i' = i + 1
  /\ pc' = "article"
  /\ UNCHANGED <<uploaded_file, valid_articles, shown, fault>>
  /\ UNCHANGED <<article_vars, probe_vars>>

\* lines 155-159: the new link is bound to download_download_link, and
\* st.markdown is given download_link: a NameError while that name is unbound
EmitPlain ==
  /\ pc = "emit"
  /\ enhanced_report = <<>>
  /\ IF download_link = <<>>
     THEN /\ pc' = "fault"
          /\ fault' = "<module>: NameError"
          /\ UNCHANGED <<emitted, i>>
     ELSE /\ emitted' = Append(emitted, download_link[1])
          /\ i' = i + 1
          /\ pc' = "article"
          /\ UNCHANGED fault
  /\ UNCHANGED <<uploaded_file, valid_articles, download_link, shown>>
  /\ UNCHANGED <<article_vars, probe_vars>>

Next ==
  \/ Validate
  \/ Finish
  \/ GetBaseUrl
  \/ ParseImages
  \/ ResolveLink
  \/ SendHead
  \/ HeadResponse
  \/ SendGet
  \/ GetResponse
  \/ ClassifyAppend
  \/ GenerateReport
  \/ SendToMistral
  \/ EmitEnhanced
  \/ EmitPlain

Spec == Init /\ [][Next]_vars

\* ================================================================ properties
InParse == pc \in {"links", "head", "head_wait", "get", "get_wait", "classify"}
InArticle == InParse \/ pc \in {"enrich", "emit"}
Reported == pc \in {"enrich", "emit"}
lower(h) == IF h = "SITE.com" THEN "site.com" ELSE h

\* C1: for every document of the loop and every outcome of send_to_mistral,
\* an artifact is emitted for the document, it carries the document's own
\* report and file name, and no fault ends the loop at the emit step.
C1_ArtifactPerDocument ==
  /\ fault # "<module>: NameError"
  /\ pc = "article" => Len(emitted) = i
  /\ \A j \in 1..Len(emitted) :
       emitted[j].filename = j /\ emitted[j].report = shown[j]

\* C2: a link is internal exactly when the host of its resolved URL equals,
\* case-insensitively, the host of the base URL, and external otherwise; with
\* the empty base URL every link is external.
C2_HostClassification ==
  \A n \in 1..Len(links) :
    links[n].type =
      IF base_url # EmptyUrl /\ lower(links[n].url.netloc) = lower(base_url.netloc)
      THEN "internal" ELSE "external"

\* C3: broken_link_count counts exactly the links whose status is an HTTP
\* code >= 400, error_link_count exactly the links whose status is Errored;
\* a link with a code in 100..399 is counted in neither.
C3_BrokenIsAtLeast400 ==
  Reported =>
    /\ report.broken_link_count =
         Len(SelectSeq(links, LAMBDA l : l.status # ErrorStatus /\ l.status >= 400))
    /\ report.error_link_count = Len(SelectSeq(links, LAMBDA l : l.status = ErrorStatus))

\* the code keeps no FailureRecord: line 129 drops the entries it rejects
failure_records == <<>>

\* C4: every entry of an input list yields exactly one outcome, a report for
\* an entry with page_html and a FailureRecord for one without, and a failure
\* in one document does not keep the later ones from being processed.
C4_OutcomePerEntry ==
  (uploaded_file.kind = "list" /\ pc \in {"done", "fault"}) =>
    /\ Len(shown) = Len(SelectSeq(uploaded_file.items, is_valid_article))
    /\ Len(failure_records) =
         Len(SelectSeq(uploaded_file.items, LAMBDA e : ~is_valid_article(e)))

\* C5: however the resolution or probe of an anchor fails, no fault escapes
\* parse_html, and the returned links list has an entry for every
\* href-bearing anchor, the failed one with status Errored.
C5_ProbeFailureContained ==
  /\ fault # "parse_html: ValueError"
  /\ Reported =>
       /\ Len(links) = Len(anchors)
       /\ \A n \in 1..Len(links) :
            (anchors[n].href.bad \/ ~Sendable(links[n].url)) => links[n].status = ErrorStatus

\* C6: every report has internal + external = link_count,
\* broken + error <= link_count, non-negative counts, and link_count equal to
\* the number of href-bearing anchors of its document.
C6_CountInvariant ==
  \A j \in 1..Len(shown) :
    LET r == shown[j] IN
    /\ r.internal_link_count + r.external_link_count = r.link_count
    /\ r.broken_link_count + r.error_link_count <= r.link_count
    /\ r.internal_link_count >= 0 /\ r.external_link_count >= 0
    /\ r.broken_link_count >= 0 /\ r.error_link_count >= 0
    /\ r.link_count = Len(find_all_a_href(valid_articles[j].page_html))

C6_Witness ==
  /\ Reported
  /\ report.link_count = 2
  /\ report.internal_link_count = 1
  /\ report.broken_link_count = 1
  /\ report.error_link_count = 1

HasBaseHref == html.base.present /\ html.base.href # EmptyUrl
Root(h) == Url(h.scheme, h.netloc, "/", "", FALSE)
IsAbsolute(h) == ~h.bad /\ h.netloc # ""

\* C7 as stated: without a base declaration, the result is scheme+host+"/" of
\* the first absolute anchor in document order, even when relative anchors
\* precede it, and the empty string only when no anchor is absolute.
C7_FirstAbsoluteAnchor ==
  pc = "images" =>
    base_url =
      IF HasBaseHref THEN html.base.href
      ELSE LET abs == SelectSeq(anchors, LAMBDA a : IsAbsolute(a.href)) IN
           IF abs = <<>> THEN EmptyUrl ELSE Root(abs[1].href)

\* C7 amended: without a base declaration only the first href-bearing anchor
\* is examined: if it has a host the result is urljoin(href, "/"), that is
\* scheme+host+"/" for a scheme urljoin resolves relatively and "/" for any
\* other scheme; if it has none, or there is no anchor, the result is the empty
\* string, also when a later anchor is absolute.  A malformed first href
\* raises ValueError.
C7_FirstAnchorOnly ==
  /\ pc = "images" =>
       base_url =
         IF HasBaseHref THEN html.base.href
         ELSE IF anchors = <<>> \/ anchors[1].href.netloc = "" THEN EmptyUrl
         ELSE IF anchors[1].href.scheme \in uses_relative THEN Root(anchors[1].href)
         ELSE RootRef
  /\ fault = "get_base_url_from_html: ValueError" =>
       ~HasBaseHref /\ anchors # <<>> /\ anchors[1].href.bad

C7_Witness ==
  /\ pc = "images"
  /\ ~html.base.present
  /\ Len(anchors) = 2
  /\ anchors[1].href = RelAbout
  /\ anchors[2].href = AbsSite
  /\ base_url = EmptyUrl

AllWS(t) == \A n \in 1..Len(t) : t[n] = WS
IsTrimOf(r, t) ==
  /\ r = <<>> \/ (r[1] # WS /\ r[Len(r)] # WS)
  /\ \E a \in 0..Len(t) :
       /\ a + Len(r) <= Len(t)
       /\ SubSeq(t, a + 1, a + Len(r)) = r
       /\ AllWS(SubSeq(t, 1, a))
       /\ AllWS(SubSeq(t, a + Len(r) + 1, Len(t)))

C10_BoundedProbing ==
  /\ inflight >= 0 /\ inflight <= MaxInFlight
  /\ Reported =>
       /\ inflight = 0
       /\ Len(links) = Len(anchors)
       /\ \A n \in 1..Len(links) : links[n].status \in Statuses \cup {ErrorStatus}

C10_Witness ==
  /\ pc = "get_wait"
  /\ inflight = MaxInFlight
  /\ Len(links) >= 1
  /\ links[1].status \in Statuses

====
